---------------------------- MODULE Spec2Model ----------------------------
(***************************************************************************)
(* Model of the protocol adaptation layer of the S3 server:                *)
(*   src/src/output.rs         S3Output::try_into_response implementations *)
(*   src/src/utils/request.rs  RequestExt                                  *)
(*                                                                         *)
(* Encodings.                                                              *)
(*   Option<T>      a sequence of length <= 1: None is <<>>, Some(v) <<v>>  *)
(*   Result<T, E>   [tag |-> "Ok", val |-> v] or [tag |-> "Err", err |-> e] *)
(*   XML text       a string                                               *)
(*   header value   a sequence of bytes, each byte a one-character token   *)
(*   XML body       the sequence of XmlEvent values written to the         *)
(*                  EventWriter, in order                                  *)
(***************************************************************************)
EXTENDS Integers, Sequences, FiniteSets, TLC

VARIABLES
    op,        \* name of the S3Output implementation invoked last
    input,     \* the value try_into_response consumed
    result,    \* the S3Result<Response> it returned
    req,       \* the Request: headers, body, uri
    target,    \* the Option<T> behind `opt: &mut Option<T>`
    ret,       \* what the last RequestExt call returned
    calls      \* number of take_body calls made on the request

vars == <<op, input, result, req, target, ret, calls>>
renderVars == <<op, input, result>>
requestVars == <<req, target, ret, calls>>

----------------------------------------------------------------------------
(* Bounds of the model *)

\* longest sequence-valued field (buckets, contents, common_prefixes)
MaxItems == 2
\* longest header value, in bytes
MaxLen == 2
\* most take_body calls made on one request
MaxCalls == 3

----------------------------------------------------------------------------
(* Option and Result *)

None == <<>>
Some(v) == <<v>>
Opt(S) == {None} \cup {Some(v) : v \in S}

Ok(v) == [tag |-> "Ok", val |-> v]
Err(e) == [tag |-> "Err", err |-> e]

SeqsUpTo(S, n) == UNION {[1..k -> S] : k \in 0..n}

----------------------------------------------------------------------------
(* S3Error: the five variants of the transport error *)

Operation(e) == [variant |-> "Operation", payload |-> e]
InvalidRequest(e) == [variant |-> "InvalidRequest", payload |-> e]
InvalidOutput(e) == [variant |-> "InvalidOutput", payload |-> e]
Storage(e) == [variant |-> "Storage", payload |-> e]
NotSupported == [variant |-> "NotSupported", payload |-> "unit"]

----------------------------------------------------------------------------
(* hyper: StatusCode, HeaderValue, Body, Response *)

OK == 200
NO_CONTENT == 204
NOT_FOUND == 404
CONFLICT == 409
INTERNAL_SERVER_ERROR == 500

LOCATION == "location"
CONTENT_TYPE == "content-type"
CONTENT_LENGTH == "content-length"
ETAG == "etag"
EXPIRES == "expires"
LAST_MODIFIED == "last-modified"
HeaderNames == {LOCATION, CONTENT_TYPE, CONTENT_LENGTH, ETAG, EXPIRES, LAST_MODIFIED}

\* bytes below 32 other than tab, and 127: not allowed in a HeaderValue
CtlBytes == {"\n", "\r"}

\* HeaderValue::try_from(String): every byte is >= 32 and not 127, or is a tab
IsValidHeaderValue(v) == \A i \in 1..Len(v) : v[i] \notin CtlBytes

\* Body::empty()
Body_empty == [kind |-> "empty", events |-> <<>>, stream |-> <<>>]
\* Body::from(Vec<u8>): the bytes the EventWriter produced
Body_from(events) == [kind |-> "bytes", events |-> events, stream |-> <<>>]
\* Body::wrap_stream(stream)
Body_wrap_stream(s) == [kind |-> "stream", events |-> <<>>, stream |-> s]

\* Response::new(body): status 200, no headers
Response_new(body) ==
    [status |-> OK, headers |-> [h \in HeaderNames |-> None], body |-> body]

\* ResponseExt::new_with_status
new_with_status(body, status) ==
    [Response_new(body) EXCEPT !.status = status]

\* ResponseExt::set_opt_header: an absent value sets nothing; a present one is
\* converted to a HeaderValue, which fails on an illegal byte
set_opt_header(res, name, value) ==
    IF value = None THEN Ok(res)
    ELSE IF IsValidHeaderValue(value[1])
         THEN Ok([res EXCEPT !.headers[name] = Some(value[1])])
         ELSE Err("InvalidHeaderValue")

\* mime::TEXT_XML as a header value
TEXT_XML == <<"t", "e", "x", "t", "/", "x", "m", "l">>

\* ResponseExt::set_mime
set_mime(res, mime) == set_opt_header(res, CONTENT_TYPE, Some(mime))

\* ResponseExt::set_opt_last_modified
set_opt_last_modified(res, value) == set_opt_header(res, LAST_MODIFIED, value)

----------------------------------------------------------------------------
(* utils::time *)

Digits == {"0", "1", "2", "3", "4", "5", "6", "7", "8", "9"}

\* The stored timestamp format, reduced to <day digit> "T" <hour digit> "Z"
IsRfc3339(t) ==
    /\ Len(t) = 4
    /\ t[1] \in Digits
    /\ t[2] = "T"
    /\ t[3] \in Digits
    /\ t[4] = "Z"

\* The wire format, reduced to <day digit> " " <hour digit> " GMT"
Rfc3339ToLastModified(t) == <<t[1], " ", t[3], " ", "G", "M", "T">>

\* time::map_opt_rfc3339_to_last_modified
map_opt_rfc3339_to_last_modified(value) ==
    IF value = None THEN Ok(None)
    ELSE IF IsRfc3339(value[1])
         THEN Ok(Some(Rfc3339ToLastModified(value[1])))
         ELSE Err("ParseError")

----------------------------------------------------------------------------
(* Integer formatting: i64::to_string / format!("{}", l) *)

Digit(d) ==
    CASE d = 0 -> "0" [] d = 1 -> "1" [] d = 2 -> "2" [] d = 3 -> "3"
      [] d = 4 -> "4" [] d = 5 -> "5" [] d = 6 -> "6" [] d = 7 -> "7"
      [] d = 8 -> "8" [] d = 9 -> "9"

RECURSIVE NatToBytes(_)
NatToBytes(n) ==
    IF n < 10 THEN <<Digit(n)>> ELSE Append(NatToBytes(n \div 10), Digit(n % 10))

\* the decimal text of an i64, as header bytes
I64ToBytes(n) == IF n < 0 THEN <<"-">> \o NatToBytes(-n) ELSE NatToBytes(n)

RECURSIVE BytesToString(_)
BytesToString(b) == IF b = <<>> THEN "" ELSE b[1] \o BytesToString(Tail(b))

\* the decimal text of an i64, as XML text
I64ToString(n) == BytesToString(I64ToBytes(n))

\* bool::to_string
BoolToString(b) == IF b THEN "true" ELSE "false"

----------------------------------------------------------------------------
(* utils::XmlWriterExt over xml::writer::EventWriter.  A writer is modelled   *)
(* by the events written so far; writing to a Vec<u8> never fails.          *)

StartDocument == [kind |-> "StartDocument", name |-> "", data |-> ""]
StartElement(name) == [kind |-> "StartElement", name |-> name, data |-> ""]
Characters(data) == [kind |-> "Characters", name |-> "", data |-> data]
EndElement == [kind |-> "EndElement", name |-> "", data |-> ""]

\* XmlWriterExt::element: open tag, text, close tag, always
element(name, data) == <<StartElement(name), Characters(data), EndElement>>

\* XmlWriterExt::opt_element: nothing for an absent value
opt_element(name, data) ==
    IF data = None THEN <<>> ELSE element(name, data[1])

\* XmlWriterExt::stack: open tag, what the closure wrote, close tag
stack(name, inner) == <<StartElement(name)>> \o inner \o <<EndElement>>

\* XmlWriterExt::opt_stack: the whole subtree only for a present value
opt_stack(name, data, inner) ==
    IF data = None THEN <<>> ELSE stack(name, inner)

\* XmlWriterExt::iter_element: the closure's output for each item, in order
RECURSIVE iter_element(_)
iter_element(blocks) ==
    IF blocks = <<>> THEN <<>> ELSE Head(blocks) \o iter_element(Tail(blocks))

----------------------------------------------------------------------------
(* wrap_output, wrap_xml_output *)

\* wrap_output reporting the closure's failure as a storage failure
wrap_output_AsStorage(r) ==
    IF r.tag = "Ok" THEN Ok(r.val) ELSE Err(Storage(r.err))

\* a failing `?` inside the closure becomes Err(InvalidOutput)
wrap_output(r) ==
    IF r.tag = "Ok" THEN Ok(r.val) ELSE Err(InvalidOutput(r.err))

\* `r` is the Option of the status the callback gives the response
wrap_xml_output(events, r) ==
    wrap_output(
        LET body == <<StartDocument>> \o events
            res == IF r = None
                   THEN Response_new(Body_from(body))
                   ELSE new_with_status(Body_from(body), r[1])
        IN set_mime(res, TEXT_XML))

----------------------------------------------------------------------------
(* error_code::S3ErrorCode *)

S3ErrorCodes ==
    {"S3ErrorCode::BucketAlreadyExists", "S3ErrorCode::BucketAlreadyOwnedByYou",
     "S3ErrorCode::NoSuchBucket", "S3ErrorCode::NoSuchKey",
     "S3ErrorCode::InvalidAddressingHeader"}

\* S3ErrorCode::to_string: the error-code string of the table
S3ErrorCode_to_string(code) ==
    CASE code = "S3ErrorCode::BucketAlreadyExists" -> "BucketAlreadyExists"
      [] code = "S3ErrorCode::BucketAlreadyOwnedByYou" -> "BucketAlreadyOwnedByYou"
      [] code = "S3ErrorCode::NoSuchBucket" -> "NoSuchBucket"
      [] code = "S3ErrorCode::NoSuchKey" -> "NoSuchKey"
      [] code = "S3ErrorCode::InvalidAddressingHeader" -> "InvalidAddressingHeader"

\* S3ErrorCode::as_status_code: the status of the table, None where it has none
as_status_code(code) ==
    CASE code = "S3ErrorCode::BucketAlreadyExists" -> Some(CONFLICT)
      [] code = "S3ErrorCode::BucketAlreadyOwnedByYou" -> Some(CONFLICT)
      [] code = "S3ErrorCode::NoSuchBucket" -> Some(NOT_FOUND)
      [] code = "S3ErrorCode::NoSuchKey" -> Some(NOT_FOUND)
      [] code = "S3ErrorCode::InvalidAddressingHeader" -> None

\* Option::unwrap_or
unwrap_or(o, d) == IF o = None THEN d ELSE o[1]

----------------------------------------------------------------------------
(* XmlErrorResponse *)

\* XmlErrorResponse::from_code_msg
from_code_msg(code, message) ==
    [code |-> code, message |-> message, resource |-> None, request_id |-> None]

\* the Error document with element in place of opt_element: empty tags
XmlErrorResponse_events_EmptyTags(self) ==
    stack("Error",
          element("Code", S3ErrorCode_to_string(self.code))
          \o element("Message", unwrap_or(self.message, ""))
          \o element("Resource", unwrap_or(self.resource, ""))
          \o element("RequestId", unwrap_or(self.request_id, "")))

\* the closure given to w.stack("Error", ..)
XmlErrorResponse_events(self) ==
    stack("Error",
          opt_element("Code", Some(S3ErrorCode_to_string(self.code)))
          \o opt_element("Message", self.message)
          \o opt_element("Resource", self.resource)
          \o opt_element("RequestId", self.request_id))

\* the status the callback gives the response
XmlErrorResponse_status(self) ==
    unwrap_or(as_status_code(self.code), INTERNAL_SERVER_ERROR)

\* impl S3Output for XmlErrorResponse
XmlErrorResponse_try_into_response(self) ==
    wrap_xml_output(XmlErrorResponse_events(self), Some(XmlErrorResponse_status(self)))

----------------------------------------------------------------------------
(* The business errors.  A value is [variant |-> name, msg |-> Option<String>];*)
(* DeleteBucketError, DeleteObjectError, GetBucketLocationError,            *)
(* ListBucketsError and PutObjectError have no variant and so no value.     *)

\* impl S3Output for CreateBucketError
CreateBucketError_try_into_response(self) ==
    LET resp ==
          CASE self.variant = "BucketAlreadyExists" ->
                 from_code_msg("S3ErrorCode::BucketAlreadyExists", self.msg)
            [] self.variant = "BucketAlreadyOwnedByYou" ->
                 from_code_msg("S3ErrorCode::BucketAlreadyOwnedByYou", self.msg)
    IN XmlErrorResponse_try_into_response(resp)

\* GetObjectError rendered with the code of another operation's error
GetObjectError_WrongCode(self) ==
    LET resp ==
          CASE self.variant = "NoSuchKey" ->
                 from_code_msg("S3ErrorCode::NoSuchBucket", self.msg)
    IN XmlErrorResponse_try_into_response(resp)

\* impl S3Output for GetObjectError
GetObjectError_try_into_response(self) ==
    LET resp ==
          CASE self.variant = "NoSuchKey" ->
                 from_code_msg("S3ErrorCode::NoSuchKey", self.msg)
    IN XmlErrorResponse_try_into_response(resp)

\* impl S3Output for HeadBucketError
HeadBucketError_try_into_response(self) ==
    LET resp ==
          CASE self.variant = "NoSuchBucket" ->
                 from_code_msg("S3ErrorCode::NoSuchBucket", self.msg)
    IN XmlErrorResponse_try_into_response(resp)

\* impl S3Output for HeadObjectError
HeadObjectError_try_into_response(self) ==
    LET resp ==
          CASE self.variant = "NoSuchKey" ->
                 from_code_msg("S3ErrorCode::NoSuchKey", self.msg)
    IN XmlErrorResponse_try_into_response(resp)

\* impl S3Output for ListObjectsError
ListObjectsError_try_into_response(self) ==
    LET resp ==
          CASE self.variant = "NoSuchBucket" ->
                 from_code_msg("S3ErrorCode::NoSuchBucket", self.msg)
    IN XmlErrorResponse_try_into_response(resp)

----------------------------------------------------------------------------
(* The outputs without an XML body *)

\* impl S3Output for CreateBucketOutput
CreateBucketOutput_try_into_response(self) ==
    wrap_output(
        LET res == Response_new(Body_empty)
        IN set_opt_header(res, LOCATION, self.location))

\* DeleteBucketOutput rendered like the other outputs without a body
DeleteBucketOutput_Status200(self) ==
    Ok(Response_new(Body_empty))

\* impl S3Output for DeleteBucketOutput
DeleteBucketOutput_try_into_response(self) ==
    Ok(new_with_status(Body_empty, NO_CONTENT))

\* impl S3Output for DeleteObjectOutput
DeleteObjectOutput_try_into_response(self) ==
    Ok(Response_new(Body_empty))

\* impl S3Output for HeadBucketOutput
HeadBucketOutput_try_into_response(self) ==
    Ok(Response_new(Body_empty))

\* impl S3Output for PutObjectOutput
PutObjectOutput_try_into_response(self) ==
    Ok(Response_new(Body_empty))

\* Option::map(|l| format!("{}", l)) / Option::map(|l| l.to_string())
map_to_string(o) == IF o = None THEN None ELSE Some(I64ToBytes(o[1]))

\* the closure of GetObjectOutput::try_into_response; each `?` returns early
GetObjectOutput_closure(self) ==
    LET res0 == Response_new(Body_empty)
        res1 == IF self.body # None
                THEN [res0 EXCEPT !.body = Body_wrap_stream(self.body[1])]
                ELSE res0
        s1 == set_opt_header(res1, CONTENT_LENGTH, map_to_string(self.content_length))
    IN IF s1.tag = "Err" THEN s1 ELSE
       LET s2 == set_opt_header(s1.val, CONTENT_TYPE, self.content_type)
       IN IF s2.tag = "Err" THEN s2 ELSE
          LET t == map_opt_rfc3339_to_last_modified(self.last_modified)
          IN IF t.tag = "Err" THEN t ELSE
             set_opt_last_modified(s2.val, t.val)

\* impl S3Output for GetObjectOutput
GetObjectOutput_try_into_response(self) ==
    wrap_output(GetObjectOutput_closure(self))

\* HeadObjectOutput with the result of setting ETag dropped instead of `?`
HeadObjectOutput_closure_IgnoresETag(self) ==
    LET res0 == Response_new(Body_empty)
        s1 == set_opt_header(res0, CONTENT_TYPE, self.content_type)
    IN IF s1.tag = "Err" THEN s1 ELSE
       LET s2 == set_opt_header(s1.val, CONTENT_LENGTH, map_to_string(self.content_length))
       IN IF s2.tag = "Err" THEN s2 ELSE
          LET t == map_opt_rfc3339_to_last_modified(self.last_modified)
          IN IF t.tag = "Err" THEN t ELSE
             LET s3 == set_opt_last_modified(s2.val, t.val)
             IN IF s3.tag = "Err" THEN s3 ELSE
                LET s4 == set_opt_header(s3.val, ETAG, self.e_tag)
                    res4 == IF s4.tag = "Err" THEN s3.val ELSE s4.val
                IN set_opt_header(res4, EXPIRES, self.expires)

\* the closure of HeadObjectOutput::try_into_response; each `?` returns early
HeadObjectOutput_closure(self) ==
    LET res0 == Response_new(Body_empty)
        s1 == set_opt_header(res0, CONTENT_TYPE, self.content_type)
    IN IF s1.tag = "Err" THEN s1 ELSE
       LET s2 == set_opt_header(s1.val, CONTENT_LENGTH, map_to_string(self.content_length))
       IN IF s2.tag = "Err" THEN s2 ELSE
          LET t == map_opt_rfc3339_to_last_modified(self.last_modified)
          IN IF t.tag = "Err" THEN t ELSE
             LET s3 == set_opt_last_modified(s2.val, t.val)
             IN IF s3.tag = "Err" THEN s3 ELSE
                LET s4 == set_opt_header(s3.val, ETAG, self.e_tag)
                IN IF s4.tag = "Err" THEN s4 ELSE
                   set_opt_header(s4.val, EXPIRES, self.expires)

\* impl S3Output for HeadObjectOutput
HeadObjectOutput_try_into_response(self) ==
    wrap_output(HeadObjectOutput_closure(self))

----------------------------------------------------------------------------
(* The outputs with an XML body *)

\* a `for` loop over a sequence: what each iteration wrote, in order
RECURSIVE ForEach(_)
ForEach(blocks) ==
    IF blocks = <<>> THEN <<>> ELSE Head(blocks) \o ForEach(Tail(blocks))

\* the closure of GetBucketLocationOutput::try_into_response:
\* as_deref().unwrap_or("") and element, not opt_element
GetBucketLocationOutput_events(self) ==
    element("LocationConstraint", unwrap_or(self.location_constraint, ""))

\* impl S3Output for GetBucketLocationOutput
GetBucketLocationOutput_try_into_response(self) ==
    wrap_xml_output(GetBucketLocationOutput_events(self), None)

\* the closure given to opt_stack("Buckets", ..): one Bucket stack per bucket
ListBuckets_buckets_events(buckets) ==
    ForEach([i \in 1..Len(buckets) |->
        stack("Bucket",
              opt_element("CreationDate", buckets[i].creation_date)
              \o opt_element("Name", buckets[i].name))])

\* the closure given to opt_stack("Owner", ..) of ListBucketsOutput
ListBuckets_owner_events(owner) ==
    opt_element("DisplayName", owner.display_name) \o opt_element("ID", owner.id)

\* ListBucketsOutput with stack in place of opt_stack for Buckets
ListBucketsOutput_events_AlwaysBuckets(self) ==
    stack("ListBucketsOutput",
          stack("Buckets",
                IF self.buckets = None THEN <<>>
                ELSE ListBuckets_buckets_events(self.buckets[1]))
          \o opt_stack("Owner", self.owner, ListBuckets_owner_events(self.owner[1])))

\* the closure given to w.stack("ListBucketsOutput", ..)
ListBucketsOutput_events(self) ==
    stack("ListBucketsOutput",
          opt_stack("Buckets", self.buckets, ListBuckets_buckets_events(self.buckets[1]))
          \o opt_stack("Owner", self.owner, ListBuckets_owner_events(self.owner[1])))

\* impl S3Output for ListBucketsOutput
ListBucketsOutput_try_into_response(self) ==
    wrap_xml_output(ListBucketsOutput_events(self), None)

\* Option<i64>::map(|s| s.to_string())
map_i64_to_string(o) == IF o = None THEN None ELSE Some(I64ToString(o[1]))

\* Option<bool>::map(|b| b.to_string())
map_bool_to_string(o) == IF o = None THEN None ELSE Some(BoolToString(o[1]))

\* the closure given to opt_stack("Owner", ..) of a Contents block
ListObjects_owner_events(owner) ==
    opt_element("ID", owner.id) \o opt_element("DisplayName", owner.display_name)

\* the closure given to w.stack("Contents", ..)
ListObjects_content_events(content) ==
    opt_element("Key", content.key)
    \o opt_element("LastModified", content.last_modified)
    \o opt_element("ETag", content.e_tag)
    \o opt_element("Size", map_i64_to_string(content.size))
    \o opt_element("StorageClass", content.storage_class)
    \o opt_stack("Owner", content.owner, ListObjects_owner_events(content.owner[1]))

\* `if let Some(contents) = self.contents { for content in contents { .. } }`
ListObjects_contents_events(contents) ==
    IF contents = None THEN <<>>
    ELSE ForEach([i \in 1..Len(contents[1]) |->
             stack("Contents", ListObjects_content_events(contents[1][i]))])

\* CommonPrefixes with element in place of opt_element for each item
ListObjects_common_prefixes_events_EmptyTags(prefixes) ==
    iter_element([i \in 1..Len(prefixes) |->
        element("Prefix", unwrap_or(prefixes[i].prefix, ""))])

\* the closure given to opt_stack("CommonPrefixes", ..): iter_element with
\* opt_element("Prefix", ..) for each item
ListObjects_common_prefixes_events(prefixes) ==
    iter_element([i \in 1..Len(prefixes) |-> opt_element("Prefix", prefixes[i].prefix)])

\* the closure given to w.stack("ListBucketResult", ..)
ListObjectsOutput_events(self) ==
    stack("ListBucketResult",
          opt_element("IsTruncated", map_bool_to_string(self.is_truncated))
          \o opt_element("Marker", self.marker)
          \o opt_element("NextMarker", self.next_marker)
          \o ListObjects_contents_events(self.contents)
          \o opt_element("Name", self.name)
          \o opt_element("Prefix", self.prefix)
          \o opt_element("Delimiter", self.delimiter)
          \o opt_element("MaxKeys", map_i64_to_string(self.max_keys))
          \o opt_stack("CommonPrefixes", self.common_prefixes,
                       ListObjects_common_prefixes_events(self.common_prefixes[1]))
          \o opt_element("EncodingType", self.encoding_type))

\* impl S3Output for ListObjectsOutput
ListObjectsOutput_try_into_response(self) ==
    wrap_xml_output(ListObjectsOutput_events(self), None)

----------------------------------------------------------------------------
(* impl<T, E> S3Output for S3Result<T, E> *)

\* the implementation of the trait for the type named ty
try_into_response(ty, v) ==
    CASE ty = "CreateBucketOutput" -> CreateBucketOutput_try_into_response(v)
      [] ty = "CreateBucketError" -> CreateBucketError_try_into_response(v)
      [] ty = "DeleteBucketOutput" -> DeleteBucketOutput_try_into_response(v)
      [] ty = "DeleteObjectOutput" -> DeleteObjectOutput_try_into_response(v)
      [] ty = "GetObjectOutput" -> GetObjectOutput_try_into_response(v)
      [] ty = "GetObjectError" -> GetObjectError_try_into_response(v)
      [] ty = "GetBucketLocationOutput" -> GetBucketLocationOutput_try_into_response(v)
      [] ty = "HeadBucketOutput" -> HeadBucketOutput_try_into_response(v)
      [] ty = "HeadBucketError" -> HeadBucketError_try_into_response(v)
      [] ty = "HeadObjectOutput" -> HeadObjectOutput_try_into_response(v)
      [] ty = "HeadObjectError" -> HeadObjectError_try_into_response(v)
      [] ty = "ListBucketsOutput" -> ListBucketsOutput_try_into_response(v)
      [] ty = "ListObjectsOutput" -> ListObjectsOutput_try_into_response(v)
      [] ty = "ListObjectsError" -> ListObjectsError_try_into_response(v)
      [] ty = "PutObjectOutput" -> PutObjectOutput_try_into_response(v)
      [] ty = "XmlErrorResponse" -> XmlErrorResponse_try_into_response(v)

\* S3Result_match_err with a storage failure re-wrapped as InvalidOutput
S3Result_match_err_StorageAsInvalidOutput(E, err) ==
    CASE err.variant = "Operation" -> try_into_response(E, err.payload)
      [] err.variant = "InvalidRequest" -> Err(InvalidRequest(err.payload))
      [] err.variant = "InvalidOutput" -> Err(InvalidOutput(err.payload))
      [] err.variant = "Storage" -> Err(InvalidOutput(err.payload))
      [] err.variant = "NotSupported" -> Err(NotSupported)

\* the match on Err(err)
S3Result_match_err(E, err) ==
    CASE err.variant = "Operation" -> try_into_response(E, err.payload)
      [] err.variant = "InvalidRequest" -> Err(InvalidRequest(err.payload))
      [] err.variant = "InvalidOutput" -> Err(InvalidOutput(err.payload))
      [] err.variant = "Storage" -> Err(Storage(err.payload))
      [] err.variant = "NotSupported" -> Err(NotSupported)

S3Result_try_into_response(T, E, self) ==
    IF self.tag = "Ok"
    THEN try_into_response(T, self.val)
    ELSE S3Result_match_err(E, self.err)

----------------------------------------------------------------------------
(* utils::request::RequestExt.  A Request is [headers, body, uri]; a header *)
(* value is its bytes.                                                      *)

\* a byte of 0x80 or above: allowed in a HeaderValue, not visible ASCII
OpaqueBytes == {"0xFF"}

\* HeaderValue::to_str: fails unless every byte is visible ASCII or a tab
to_str(v) ==
    IF \E i \in 1..Len(v) : v[i] \in OpaqueBytes \cup CtlBytes
    THEN Err("ToStrError")
    ELSE Ok(v)

\* RequestExt::get_header_str: headers().get(name).map(to_str).transpose()
get_header_str(self, name) ==
    IF self.headers[name] = None THEN Ok(None)
    ELSE LET r == to_str(self.headers[name][1])
         IN IF r.tag = "Err" THEN r ELSE Ok(Some(r.val))

DigitValue(c) ==
    CASE c = "0" -> 0 [] c = "1" -> 1 [] c = "2" -> 2 [] c = "3" -> 3
      [] c = "4" -> 4 [] c = "5" -> 5 [] c = "6" -> 6 [] c = "7" -> 7
      [] c = "8" -> 8 [] c = "9" -> 9

RECURSIVE DecimalValue(_)
DecimalValue(s) ==
    IF s = <<>> THEN 0
    ELSE 10 * DecimalValue(SubSeq(s, 1, Len(s) - 1)) + DigitValue(s[Len(s)])

\* str::parse::<T>() for an unsigned integer T: one or more decimal digits
parse(s) ==
    IF s # <<>> /\ \A i \in 1..Len(s) : s[i] \in Digits
    THEN Ok(DecimalValue(s))
    ELSE Err("ParseIntError")

\* assign_opt_header clearing the target when the header does not parse
assign_opt_header_ClearsOnFailure(self, name, opt) ==
    LET h == get_header_str(self, name)
    IN IF h.tag = "Err" THEN [ret |-> Err(h.err), opt |-> opt]
       ELSE IF h.val = None THEN [ret |-> Ok(Ok("self")), opt |-> opt]
       ELSE LET v == parse(h.val[1])
            IN IF v.tag = "Ok"
               THEN [ret |-> Ok(Ok("self")), opt |-> Some(v.val)]
               ELSE [ret |-> Ok(Err(v.err)), opt |-> None]

\* RequestExt::assign_opt_header: the value returned and the target afterwards
assign_opt_header(self, name, opt) ==
    LET h == get_header_str(self, name)
    IN IF h.tag = "Err" THEN [ret |-> Err(h.err), opt |-> opt]
       ELSE IF h.val = None THEN [ret |-> Ok(Ok("self")), opt |-> opt]
       ELSE LET v == parse(h.val[1])
            IN IF v.tag = "Ok"
               THEN [ret |-> Ok(Ok("self")), opt |-> Some(v.val)]
               ELSE [ret |-> Ok(Err(v.err)), opt |-> opt]

\* take_body handing out the body without replacing it
take_body_KeepsBody(self) ==
    [ret |-> self.body, req |-> self]

\* RequestExt::take_body: mem::replace(self.body_mut(), Body::empty())
take_body(self) ==
    [ret |-> self.body, req |-> [self EXCEPT !.body = Body_empty]]

----------------------------------------------------------------------------
(* The values the operations are applied to *)

HeaderBytes == {"a", "\n"}
HeaderTexts == SeqsUpTo(HeaderBytes, MaxLen)
StoredTimestamps == {<<"1", "T", "2", "Z">>, <<"1", "T", "2">>, <<"a">>}
ContentLengths == {0, 12}
Streams == {<<"chunk1">>, <<"chunk1", "chunk2">>}
BoxErrors == {"e1", "e2"}
Msgs == {"", "not found"}

TransportErrors ==
    {InvalidRequest(e) : e \in BoxErrors} \cup {InvalidOutput(e) : e \in BoxErrors}
    \cup {Storage(e) : e \in BoxErrors} \cup {NotSupported}

BusinessErrors(variants) == [variant : variants, msg : Opt(Msgs)]
CreateBucketErrors == BusinessErrors({"BucketAlreadyExists", "BucketAlreadyOwnedByYou"})
GetObjectErrors == BusinessErrors({"NoSuchKey"})
HeadBucketErrors == BusinessErrors({"NoSuchBucket"})
HeadObjectErrors == BusinessErrors({"NoSuchKey"})
ListObjectsErrors == BusinessErrors({"NoSuchBucket"})

XmlErrorResponses ==
    [code : S3ErrorCodes, message : Opt(Msgs),
     resource : Opt({"/bucket/key"}), request_id : Opt({"rid"})]

CreateBucketOutputs == [location : Opt(HeaderTexts)]
DeleteBucketOutputs == {[type |-> "DeleteBucketOutput"]}
DeleteObjectOutputs == [delete_marker : Opt(BOOLEAN), version_id : Opt({"v1"})]
HeadBucketOutputs == {[type |-> "HeadBucketOutput"]}
PutObjectOutputs == [e_tag : Opt({"etag"}), version_id : Opt({"v1"})]
GetObjectOutputs ==
    [body : Opt(Streams), content_length : Opt(ContentLengths),
     content_type : Opt(HeaderTexts), last_modified : Opt(StoredTimestamps)]
HeadObjectOutputs ==
    [content_type : Opt(HeaderTexts), content_length : Opt(ContentLengths),
     last_modified : Opt(StoredTimestamps), e_tag : Opt(HeaderTexts),
     expires : Opt(HeaderTexts)]
GetBucketLocationOutputs == [location_constraint : Opt({"", "eu-west-1"})]

Buckets == [creation_date : Opt({"2020-01-01T00:00:00Z"}), name : Opt({"a", "b"})]
Owners == [display_name : Opt({"dn"}), id : Opt({"42"})]
ListBucketsOutputs ==
    [buckets : Opt(SeqsUpTo(Buckets, MaxItems)), owner : Opt(Owners)]

\* an Object with every optional field but the key absent
BareObject(k) ==
    [key |-> k, last_modified |-> None, e_tag |-> None, size |-> None,
     storage_class |-> None, owner |-> None]
Objects ==
    UNION {{BareObject(k),
            [BareObject(k) EXCEPT !.owner = Some([display_name |-> None, id |-> None])],
            [key |-> k, last_modified |-> Some("2020-01-01T00:00:00Z"),
             e_tag |-> Some("etag"), size |-> Some(105),
             storage_class |-> Some("STANDARD"),
             owner |-> Some([display_name |-> Some("dn"), id |-> Some("42")])]}
           : k \in Opt({"k1", "k2"})}
CommonPrefixes == [prefix : Opt({"p/", "q/"})]

\* a ListObjectsOutput with every optional field absent
BareListObjectsOutput ==
    [is_truncated |-> None, marker |-> None, next_marker |-> None,
     contents |-> None, name |-> None, prefix |-> None, delimiter |-> None,
     max_keys |-> None, common_prefixes |-> None, encoding_type |-> None]
ListObjectsOutputs ==
    {[BareListObjectsOutput EXCEPT
        !.is_truncated = t, !.marker = m, !.next_marker = nm, !.name = n,
        !.prefix = p, !.delimiter = d, !.max_keys = mk, !.encoding_type = et] :
        t \in Opt(BOOLEAN), m \in Opt({"m"}), nm \in Opt({"nm"}),
        n \in Opt({"", "bucket"}), p \in Opt({"pre"}), d \in Opt({"/"}),
        mk \in Opt({0, 1000}), et \in Opt({"url"})}
    \cup
    {[BareListObjectsOutput EXCEPT !.contents = c, !.common_prefixes = cp] :
        c \in Opt(SeqsUpTo(Objects, MaxItems)),
        cp \in Opt(SeqsUpTo(CommonPrefixes, MaxItems))}

ReqHeaderNames == {CONTENT_LENGTH, "range"}
ReqBytes == {"7", "a", "0xFF"}
RawValues == SeqsUpTo(ReqBytes, MaxLen)
Requests ==
    {[headers |-> [h \in ReqHeaderNames |-> IF h = CONTENT_LENGTH THEN cl ELSE rg],
      body |-> b, uri |-> u] :
        cl \in Opt(RawValues), rg \in Opt({<<"7">>}),
        b \in {Body_empty} \cup {Body_wrap_stream(st) : st \in Streams},
        u \in {"/bucket/key?marker=m"}}
Targets == Opt({0, 5})

----------------------------------------------------------------------------
(* The render operations: one action per S3Output implementation.  The     *)
(* call consumes the operation result, so each result is rendered once.    *)

NoCall == [fn |-> "none"]

Render(T, E, self) ==
    /\ op' = T
    /\ input' = self
    /\ result' = S3Result_try_into_response(T, E, self)
    /\ UNCHANGED requestVars

RenderCreateBucket ==
    /\ op = "none"
    /\ \/ \E o \in CreateBucketOutputs :
            Render("CreateBucketOutput", "CreateBucketError", Ok(o))
       \/ \E e \in CreateBucketErrors :
            Render("CreateBucketOutput", "CreateBucketError", Err(Operation(e)))
       \/ \E t \in TransportErrors :
            Render("CreateBucketOutput", "CreateBucketError", Err(t))

RenderDeleteBucket ==
    /\ op = "none"
    /\ \/ \E o \in DeleteBucketOutputs :
            Render("DeleteBucketOutput", "DeleteBucketError", Ok(o))
       \/ \E t \in TransportErrors :
            Render("DeleteBucketOutput", "DeleteBucketError", Err(t))

RenderDeleteObject ==
    /\ op = "none"
    /\ \/ \E o \in DeleteObjectOutputs :
            Render("DeleteObjectOutput", "DeleteObjectError", Ok(o))
       \/ \E t \in TransportErrors :
            Render("DeleteObjectOutput", "DeleteObjectError", Err(t))

RenderGetObject ==
    /\ op = "none"
    /\ \/ \E o \in GetObjectOutputs :
            Render("GetObjectOutput", "GetObjectError", Ok(o))
       \/ \E e \in GetObjectErrors :
            Render("GetObjectOutput", "GetObjectError", Err(Operation(e)))
       \/ \E t \in TransportErrors :
            Render("GetObjectOutput", "GetObjectError", Err(t))

RenderGetBucketLocation ==
    /\ op = "none"
    /\ \/ \E o \in GetBucketLocationOutputs :
            Render("GetBucketLocationOutput", "GetBucketLocationError", Ok(o))
       \/ \E t \in TransportErrors :
            Render("GetBucketLocationOutput", "GetBucketLocationError", Err(t))

RenderHeadBucket ==
    /\ op = "none"
    /\ \/ \E o \in HeadBucketOutputs :
            Render("HeadBucketOutput", "HeadBucketError", Ok(o))
       \/ \E e \in HeadBucketErrors :
            Render("HeadBucketOutput", "HeadBucketError", Err(Operation(e)))
       \/ \E t \in TransportErrors :
            Render("HeadBucketOutput", "HeadBucketError", Err(t))

RenderHeadObject ==
    /\ op = "none"
    /\ \/ \E o \in HeadObjectOutputs :
            Render("HeadObjectOutput", "HeadObjectError", Ok(o))
       \/ \E e \in HeadObjectErrors :
            Render("HeadObjectOutput", "HeadObjectError", Err(Operation(e)))
       \/ \E t \in TransportErrors :
            Render("HeadObjectOutput", "HeadObjectError", Err(t))

RenderListBuckets ==
    /\ op = "none"
    /\ \/ \E o \in ListBucketsOutputs :
            Render("ListBucketsOutput", "ListBucketsError", Ok(o))
       \/ \E t \in TransportErrors :
            Render("ListBucketsOutput", "ListBucketsError", Err(t))

RenderListObjects ==
    /\ op = "none"
    /\ \/ \E o \in ListObjectsOutputs :
            Render("ListObjectsOutput", "ListObjectsError", Ok(o))
       \/ \E e \in ListObjectsErrors :
            Render("ListObjectsOutput", "ListObjectsError", Err(Operation(e)))
       \/ \E t \in TransportErrors :
            Render("ListObjectsOutput", "ListObjectsError", Err(t))

RenderPutObject ==
    /\ op = "none"
    /\ \/ \E o \in PutObjectOutputs :
            Render("PutObjectOutput", "PutObjectError", Ok(o))
       \/ \E t \in TransportErrors :
            Render("PutObjectOutput", "PutObjectError", Err(t))

\* XmlErrorResponse rendered on its own
RenderXmlErrorResponse ==
    /\ op = "none"
    /\ \E x \in XmlErrorResponses :
        /\ op' = "XmlErrorResponse"
        /\ input' = x
        /\ result' = try_into_response("XmlErrorResponse", x)
        /\ UNCHANGED requestVars

----------------------------------------------------------------------------
(* The request operations *)

AssignOptHeader ==
    \E name \in ReqHeaderNames :
        LET r == assign_opt_header(req, name, target)
        IN /\ target' = r.opt
           /\ ret' = [fn |-> "assign_opt_header", name |-> name, out |-> r.ret]
           /\ UNCHANGED <<req, calls>>
           /\ UNCHANGED renderVars

TakeBody ==
    /\ calls < MaxCalls
    /\ LET r == take_body(req)
       IN /\ req' = r.req
          /\ ret' = [fn |-> "take_body", name |-> "", out |-> r.ret]
    /\ calls' = calls + 1
    /\ UNCHANGED target
    /\ UNCHANGED renderVars

----------------------------------------------------------------------------
(* Specifications *)

InitRender ==
    /\ op = "none"
    /\ input = NoCall
    /\ result = NoCall

InitRequest ==
    /\ req \in Requests
    /\ target \in Targets
    /\ ret = NoCall
    /\ calls = 0

\* the renderers, applied to one operation result after another
Init ==
    /\ InitRender
    /\ req = [headers |-> [h \in ReqHeaderNames |-> None], body |-> Body_empty,
              uri |-> "/"]
    /\ target = None
    /\ ret = NoCall
    /\ calls = 0

Next ==
    \/ RenderCreateBucket
    \/ RenderDeleteBucket
    \/ RenderDeleteObject
    \/ RenderGetObject
    \/ RenderGetBucketLocation
    \/ RenderHeadBucket
    \/ RenderHeadObject
    \/ RenderListBuckets
    \/ RenderListObjects
    \/ RenderPutObject
    \/ RenderXmlErrorResponse

Spec == Init /\ [][Next]_vars

\* the request utilities, applied to one request
InitReq == InitRender /\ InitRequest

NextReq == AssignOptHeader \/ TakeBody

SpecRequest == InitReq /\ [][NextReq]_vars

----------------------------------------------------------------------------
(* Reading a rendered body *)

\* the names of the elements opened, in document order
RECURSIVE StartNames(_)
StartNames(ev) ==
    IF ev = <<>> THEN <<>>
    ELSE IF Head(ev).kind = "StartElement"
         THEN <<Head(ev).name>> \o StartNames(Tail(ev))
         ELSE StartNames(Tail(ev))

\* the texts of the elements called n, in document order
RECURSIVE TextsOf(_, _)
TextsOf(ev, n) ==
    IF Len(ev) < 2 THEN <<>>
    ELSE IF ev[1] = StartElement(n) /\ ev[2].kind = "Characters"
         THEN <<ev[2].data>> \o TextsOf(Tail(ev), n)
         ELSE TextsOf(Tail(ev), n)

\* the index of the EndElement that closes the element whose content starts at j
RECURSIVE ElementEnd(_, _, _)
ElementEnd(ev, j, depth) ==
    IF j > Len(ev) THEN j
    ELSE IF ev[j].kind = "StartElement" THEN ElementEnd(ev, j + 1, depth + 1)
    ELSE IF ev[j].kind = "EndElement"
         THEN IF depth = 0 THEN j ELSE ElementEnd(ev, j + 1, depth - 1)
         ELSE ElementEnd(ev, j + 1, depth)

\* the contents of the elements called n, in document order
RECURSIVE Blocks(_, _)
Blocks(ev, n) ==
    IF ev = <<>> THEN <<>>
    ELSE IF Head(ev) = StartElement(n)
         THEN LET e == ElementEnd(ev, 2, 0)
              IN <<SubSeq(ev, 2, e - 1)>> \o Blocks(SubSeq(ev, e + 1, Len(ev)), n)
         ELSE Blocks(Tail(ev), n)

\* the events after the first opening of the element called n
RECURSIVE After(_, _)
After(ev, n) ==
    IF ev = <<>> THEN <<>>
    ELSE IF Head(ev) = StartElement(n) THEN Tail(ev) ELSE After(Tail(ev), n)

\* the operations rendered through impl S3Output for S3Result<T, E>
ResultOps ==
    {"CreateBucketOutput", "DeleteBucketOutput", "DeleteObjectOutput",
     "GetObjectOutput", "GetBucketLocationOutput", "HeadBucketOutput",
     "HeadObjectOutput", "ListBucketsOutput", "ListObjectsOutput",
     "PutObjectOutput"}

\* the business error type E that goes with the output type T
ErrorTypeOf(T) ==
    CASE T = "CreateBucketOutput" -> "CreateBucketError"
      [] T = "GetObjectOutput" -> "GetObjectError"
      [] T = "HeadBucketOutput" -> "HeadBucketError"
      [] T = "HeadObjectOutput" -> "HeadObjectError"
      [] T = "ListObjectsOutput" -> "ListObjectsError"

IsOkInput == op \in ResultOps /\ input.tag = "Ok"
IsOperationInput ==
    op \in ResultOps /\ input.tag = "Err" /\ input.err.variant = "Operation"
IsTransportInput ==
    op \in ResultOps /\ input.tag = "Err" /\ input.err.variant # "Operation"

----------------------------------------------------------------------------
(* Properties *)

\* C1: rendering a two-sided result dispatches on the branch that occurred:
\* Ok(output) gives the rendering of output, Err(Operation(e)) the rendering of
\* e, and each of InvalidRequest, InvalidOutput, Storage and NotSupported comes
\* back as Err of the same variant with the same payload and no response.
C1_Dispatch ==
    /\ IsOkInput => result = try_into_response(op, input.val)
    /\ IsOperationInput =>
         result = try_into_response(ErrorTypeOf(op), input.err.payload)
    /\ IsTransportInput =>
         /\ result.tag = "Err"
         /\ result.err.variant = input.err.variant
         /\ result.err.payload = input.err.payload

C1_Witness ==
    /\ IsTransportInput
    /\ input.err = Storage("e2")
    /\ result.tag = "Err"

\* C2: every business error variant renders a response whose Code element is
\* the variant's error-code string and whose status is the one the error-code
\* table gives for that code, 500 when it gives none; NoSuchKey renders 404
\* with Code NoSuchKey.
C2_ErrorCodeAndStatus ==
    IsOperationInput =>
        LET e == input.err.payload
        IN /\ result.tag = "Ok"
           /\ TextsOf(result.val.body.events, "Code") = <<e.variant>>
           /\ result.val.status =
                unwrap_or(as_status_code("S3ErrorCode::" \o e.variant),
                          INTERNAL_SERVER_ERROR)
           /\ e.variant = "NoSuchKey" => result.val.status = 404

C2_Witness ==
    /\ IsOperationInput
    /\ op = "GetObjectOutput"
    /\ input.err.payload.variant = "NoSuchKey"
    /\ result.tag = "Ok"
    /\ result.val.status = 404

\* C3: the error document has the one root element Error with the children
\* Code, Message, Resource, RequestId in that order, each of the last three
\* emitted exactly when its value is present and then with that value.
C3_ErrorDocument ==
    op = "XmlErrorResponse" =>
        /\ result.tag = "Ok"
        /\ LET ev == result.val.body.events
               present(name, o) == IF o = None THEN <<>> ELSE <<name>>
           IN /\ Head(ev) = StartDocument
              /\ StartNames(ev) =
                   <<"Error", "Code">> \o present("Message", input.message)
                   \o present("Resource", input.resource)
                   \o present("RequestId", input.request_id)
              /\ Len(Blocks(ev, "Error")) = 1
              /\ Len(ev) = 2 + Len(Blocks(ev, "Error")[1]) + 1
              /\ TextsOf(ev, "Code") = <<S3ErrorCode_to_string(input.code)>>
              /\ TextsOf(ev, "Message") = input.message
              /\ TextsOf(ev, "Resource") = input.resource
              /\ TextsOf(ev, "RequestId") = input.request_id

C3_Witness ==
    /\ op = "XmlErrorResponse"
    /\ input.message = None
    /\ input.resource # None
    /\ input.request_id # None
    /\ result.tag = "Ok"
    /\ StartNames(result.val.body.events) = <<"Error", "Code", "Resource", "RequestId">>

\* C9: an output that defines no body renders, on success, status 200 with an
\* empty body; DeleteBucketOutput renders 204 with an empty body and is the
\* only output rendered with 204.
C9_StatusOfBodilessOutputs ==
    (IsOkInput /\ result.tag = "Ok") =>
        /\ op \in {"CreateBucketOutput", "DeleteObjectOutput", "HeadBucketOutput",
                   "HeadObjectOutput", "PutObjectOutput"} =>
             (result.val.status = 200 /\ result.val.body = Body_empty)
        /\ op = "DeleteBucketOutput" =>
             (result.val.status = 204 /\ result.val.body = Body_empty)
        /\ result.val.status = 204 => op = "DeleteBucketOutput"

C9_Witness ==
    /\ IsOkInput
    /\ op = "DeleteBucketOutput"
    /\ result.tag = "Ok"
    /\ result.val.status = 204
    /\ result.val.body = Body_empty

\* C10: rendering a two-sided result never returns an Operation error; from
\* Ok(output) or Err(Operation(e)) it returns a response or InvalidOutput, and
\* InvalidRequest, Storage or NotSupported only come from an input that
\* already was that variant.
C10_NoOperationError ==
    (op \in ResultOps /\ result.tag = "Err") =>
        /\ result.err.variant # "Operation"
        /\ (IsOkInput \/ IsOperationInput) => result.err.variant = "InvalidOutput"
        /\ result.err.variant \in {"InvalidRequest", "Storage", "NotSupported"} =>
             (IsTransportInput /\ input.err.variant = result.err.variant)

C10_Witness ==
    /\ IsOkInput
    /\ op = "GetObjectOutput"
    /\ result.tag = "Err"
    /\ result.err.variant = "InvalidOutput"

\* every optional field of the output rendered is absent
AllOptionalAbsent ==
    /\ IsOkInput
    /\ \/ op = "ListBucketsOutput" /\ input.val.buckets = None /\ input.val.owner = None
       \/ op = "ListObjectsOutput" /\ input.val = BareListObjectsOutput
       \/ op = "GetBucketLocationOutput" /\ input.val.location_constraint = None

\* the root element of each XML output, which no optional field feeds
RootOf(T) ==
    CASE T = "ListBucketsOutput" -> "ListBucketsOutput"
      [] T = "ListObjectsOutput" -> "ListBucketResult"

\* C4 as stated: with every optional field absent the body holds none of the
\* elements the optional fields feed, for ListBucketsOutput, ListObjectsOutput
\* and GetBucketLocationOutput (whose LocationConstraint element is fed by the
\* optional location constraint) alike.
C4_Original ==
    AllOptionalAbsent =>
        /\ result.tag = "Ok"
        /\ op = "GetBucketLocationOutput" =>
             StartNames(result.val.body.events) = <<>>
        /\ op # "GetBucketLocationOutput" =>
             StartNames(result.val.body.events) = <<RootOf(op)>>

\* C4 amended: with every optional field absent, ListBucketsOutput and
\* ListObjectsOutput render the root element alone; GetBucketLocationOutput
\* renders one LocationConstraint element with empty text, always.
C4_Amended ==
    /\ AllOptionalAbsent =>
        /\ result.tag = "Ok"
        /\ op = "GetBucketLocationOutput" =>
             result.val.body.events =
                <<StartDocument, StartElement("LocationConstraint"),
                  Characters(""), EndElement>>
        /\ op # "GetBucketLocationOutput" =>
             result.val.body.events =
                <<StartDocument, StartElement(RootOf(op)), EndElement>>
    /\ (IsOkInput /\ op = "GetBucketLocationOutput") =>
        /\ result.tag = "Ok"
        /\ StartNames(result.val.body.events) = <<"LocationConstraint">>

C4_Witness ==
    /\ AllOptionalAbsent
    /\ op = "ListObjectsOutput"
    /\ result.tag = "Ok"
    /\ StartNames(result.val.body.events) = <<"ListBucketResult">>

\* a header value with a byte a HeaderValue cannot hold
HasIllegalByte(o) == o # None /\ \E i \in 1..Len(o[1]) : o[1][i] \in CtlBytes

\* a stored timestamp the converter rejects
IsMalformed(o) == o # None /\ ~IsRfc3339(o[1])

\* some header of the output cannot be set
HeaderFailure ==
    CASE op = "CreateBucketOutput" -> HasIllegalByte(input.val.location)
      [] op = "GetObjectOutput" ->
           HasIllegalByte(input.val.content_type) \/ IsMalformed(input.val.last_modified)
      [] op = "HeadObjectOutput" ->
           \/ HasIllegalByte(input.val.content_type)
           \/ IsMalformed(input.val.last_modified)
           \/ HasIllegalByte(input.val.e_tag)
           \/ HasIllegalByte(input.val.expires)
      [] OTHER -> FALSE

\* the header h of the response carries the field's value when it is present
Carries(h, o) == o # None => result.val.headers[h] = o

\* C7: a header that cannot be set, or a last-modified timestamp that cannot
\* be converted, makes the render return Err(InvalidOutput) and no response,
\* whichever header it is; a response returned carries every header whose
\* value was present, well-formed.
C7_HeaderFailureIsInvalidOutput ==
    IsOkInput =>
        /\ HeaderFailure =>
             (result.tag = "Err" /\ result.err.variant = "InvalidOutput")
        /\ result.tag = "Ok" =>
             /\ \A h \in HeaderNames :
                  result.val.headers[h] # None =>
                      IsValidHeaderValue(result.val.headers[h][1])
             /\ op = "CreateBucketOutput" => Carries(LOCATION, input.val.location)
             /\ op \in {"GetObjectOutput", "HeadObjectOutput"} =>
                  /\ Carries(CONTENT_TYPE, input.val.content_type)
                  /\ input.val.content_length = Some(12) =>
                       result.val.headers[CONTENT_LENGTH] = Some(<<"1", "2">>)
                  /\ input.val.last_modified # None =>
                       result.val.headers[LAST_MODIFIED] # None
             /\ op = "HeadObjectOutput" =>
                  /\ Carries(ETAG, input.val.e_tag)
                  /\ Carries(EXPIRES, input.val.expires)
             /\ op \in {"GetBucketLocationOutput", "ListBucketsOutput",
                        "ListObjectsOutput"} =>
                  result.val.headers[CONTENT_TYPE] = Some(TEXT_XML)

C7_Witness ==
    /\ IsOkInput
    /\ op = "HeadObjectOutput"
    /\ input.val.content_type = Some(<<"a">>)
    /\ input.val.last_modified = Some(<<"1", "T", "2", "Z">>)
    /\ input.val.e_tag = Some(<<"a">>)
    /\ input.val.expires = Some(<<"a", "\n">>)
    /\ result.tag = "Err"
    /\ result.err.variant = "InvalidOutput"

\* the present values among a sequence of optional values, in order
RECURSIVE Present(_)
Present(os) == IF os = <<>> THEN <<>> ELSE Head(os) \o Present(Tail(os))

\* the Bucket and Contents blocks are one per item, in input order
BlockPerItem ==
    /\ (op = "ListBucketsOutput" /\ input.val.buckets # None) =>
         LET items == input.val.buckets[1]
             blocks == Blocks(result.val.body.events, "Bucket")
         IN /\ Len(blocks) = Len(items)
            /\ Len(Blocks(result.val.body.events, "Buckets")) = 1
            /\ \A i \in 1..Len(items) :
                 /\ TextsOf(blocks[i], "Name") = items[i].name
                 /\ TextsOf(blocks[i], "CreationDate") = items[i].creation_date
    /\ (op = "ListObjectsOutput" /\ input.val.contents # None) =>
         LET items == input.val.contents[1]
             blocks == Blocks(result.val.body.events, "Contents")
         IN /\ Len(blocks) = Len(items)
            /\ \A i \in 1..Len(items) :
                 /\ TextsOf(blocks[i], "Key") = items[i].key
                 /\ Len(Blocks(blocks[i], "Owner")) =
                      (IF items[i].owner = None THEN 0 ELSE 1)

\* the Prefix blocks inside CommonPrefixes
PrefixBlocks == TextsOf(After(result.val.body.events, "CommonPrefixes"), "Prefix")

\* C8 as stated: a sequence-valued field of N items renders exactly N sibling
\* blocks in input order; N common-prefix items give N Prefix blocks whatever
\* the items hold.
C8_Original ==
    (IsOkInput /\ result.tag = "Ok") =>
        /\ BlockPerItem
        /\ (op = "ListObjectsOutput" /\ input.val.common_prefixes # None) =>
             Len(PrefixBlocks) = Len(input.val.common_prefixes[1])

\* C8 amended: Buckets and Contents render one block per item in input order;
\* CommonPrefixes renders one Prefix block per item whose prefix is present,
\* in input order, and nothing for an item whose prefix is absent.
C8_Amended ==
    (IsOkInput /\ result.tag = "Ok") =>
        /\ BlockPerItem
        /\ (op = "ListObjectsOutput" /\ input.val.common_prefixes # None) =>
             LET items == input.val.common_prefixes[1]
             IN /\ PrefixBlocks = Present([i \in 1..Len(items) |-> items[i].prefix])
                /\ Len(Blocks(result.val.body.events, "CommonPrefixes")) = 1
        /\ (op = "ListObjectsOutput" /\ input.val.common_prefixes = None) =>
             Len(Blocks(result.val.body.events, "CommonPrefixes")) = 0

C8_Witness ==
    /\ IsOkInput
    /\ op = "ListObjectsOutput"
    /\ input.val.common_prefixes = Some(<<[prefix |-> Some("q/")], [prefix |-> Some("p/")]>>)
    /\ input.val.contents # None
    /\ Len(input.val.contents[1]) = 2
    /\ result.tag = "Ok"
    /\ PrefixBlocks = <<"q/", "p/">>
    /\ Len(Blocks(result.val.body.events, "Contents")) = 2

\* the header's bytes are readable as text
IsReadable(v) == \A i \in 1..Len(v) : v[i] \notin OpaqueBytes

\* the header's text is one or more decimal digits
IsParsable(v) == v # <<>> /\ \A i \in 1..Len(v) : v[i] \in Digits

\* what a step of assign_opt_header(name, target) does
AssignOutcome ==
    LET h == req.headers[ret'.name]
    IN /\ h = None =>
            (ret'.out = Ok(Ok("self")) /\ target' = target)
       /\ (h # None /\ IsReadable(h[1]) /\ IsParsable(h[1])) =>
            /\ ret'.out = Ok(Ok("self"))
            /\ target' = Some(parse(h[1]).val)
            /\ h[1] = <<"7">> => target' = Some(7)
            /\ h[1] = <<"7", "7">> => target' = Some(77)
       /\ (h # None /\ IsReadable(h[1]) /\ ~IsParsable(h[1])) =>
            (ret'.out = Ok(Err("ParseIntError")) /\ target' = target)
       /\ (h # None /\ ~IsReadable(h[1])) =>
            (ret'.out = Err("ToStrError") /\ target' = target)
       /\ req' = req

\* C5: assign_opt_header has exactly these outcomes: header absent, target
\* unchanged and Ok(Ok); header parsable, target Some(parsed value) and
\* Ok(Ok); header readable but unparsable, Ok(Err) and target unchanged;
\* header not readable as text, Err and target unchanged.
C5_AssignOptHeader ==
    [][(ret'.fn = "assign_opt_header" /\ calls' = calls) => AssignOutcome]_vars

C5_Witness ==
    /\ ret.fn = "assign_opt_header"
    /\ ret.name = CONTENT_LENGTH
    /\ req.headers[CONTENT_LENGTH] = Some(<<"7", "a">>)
    /\ ret.out = Ok(Err("ParseIntError"))
    /\ target = Some(5)

\* what a step does to the request
TakeBodyOutcome ==
    /\ calls' # calls =>
         /\ calls' = calls + 1
         /\ ret'.fn = "take_body"
         /\ ret'.out = req.body
         /\ req'.body = Body_empty
         /\ req'.headers = req.headers
         /\ req'.uri = req.uri
         /\ calls >= 1 => ret'.out = Body_empty
    /\ calls' = calls => req' = req

\* C6: the first take_body call returns the request's original body and leaves
\* an empty stream; every later call returns an empty stream; no call changes
\* the headers or the URI, and nothing but take_body changes the request.
C6_TakeBody == [][TakeBodyOutcome]_vars

C6_Witness ==
    /\ calls = 2
    /\ ret.fn = "take_body"
    /\ ret.out = Body_empty
    /\ req.body = Body_empty
    /\ req.headers[CONTENT_LENGTH] # None

=============================================================================
